---- MODULE Spec2Model ----
(***************************************************************************)
(* Model of the FilePicker application (src/src/filepicker.rs): the        *)
(* directory scanner get_dir_content and the message handler               *)
(* FilePicker::update, over an explicit filesystem and an explicit model   *)
(* of std::path::Path on Unix.                                             *)
(*                                                                         *)
(* A path string is a sequence of one-character strings.  The character    *)
(* "?" stands for a byte that is not valid UTF-8: it can occur in a file   *)
(* name on disk, never in a Rust String.                                   *)
(***************************************************************************)
EXTENDS Naturals, Integers, Sequences, FiniteSets, TLC

VARIABLES path, content, cwd, status, last, scanned, command

vars == <<path, content, cwd, status, last, scanned, command>>

\* Longest text the user types into the address field.
MaxLen == 2

\* Characters the user types into the address field.
TypeChars == {"/", "a", "."}

\* Every text the address field can deliver in Message::PathInput.
Texts == UNION {[1..n -> TypeChars] : n \in 0..MaxLen}

Some(v) == [some |-> TRUE, v |-> v]
None == [some |-> FALSE]

(***************************************************************************)
(* The filesystem the program reads.  A node is the sequence of names      *)
(* leading to it from the root directory.                                  *)
(***************************************************************************)
Root == <<>>

Nodes ==
  { <<>>, <<"a">>, <<"b">>,
    <<"a", "a">>, <<"a", "b">>, <<"a", "c">>, <<"a", "d">>, <<"a", "e">>,
    <<"a", "a", "b">>, <<"a", "e", "a">>, <<"a", "e", "?">> }

\* "dir", "file", or "dangling" (a symbolic link whose target is missing).
Kind(n) ==
  CASE n \in {<<>>, <<"a">>, <<"a", "a">>, <<"a", "d">>, <<"a", "e">>} -> "dir"
    [] n = <<"a", "c">> -> "dangling"
    [] OTHER -> "file"

\* A directory without read and search permission.
Locked(n) == n = <<"a", "d">>

\* st_size of the node, in bytes.
FileLen(n) ==
  CASE n = <<"b">> -> 10240
    [] n = <<"a", "b">> -> 1023
    [] n = <<"a", "a", "b">> -> 1024
    [] n = <<"a", "e", "a">> -> 2048
    [] n = <<"a", "e", "?">> -> 1
    [] OTHER -> 4096

OkItem(name) == [ok |-> TRUE, name |-> name]
ErrItem == [ok |-> FALSE]

\* What the OS enumeration of directory n produces, in its order: a name,
\* or a failed read of one item.
Enumeration(n) ==
  CASE n = <<>> -> <<OkItem(<<"a">>), OkItem(<<"b">>)>>
    [] n = <<"a">> -> <<OkItem(<<"a">>), OkItem(<<"b">>), OkItem(<<"c">>),
                        OkItem(<<"d">>), OkItem(<<"e">>)>>
    [] n = <<"a", "a">> -> <<ErrItem, OkItem(<<"b">>)>>
    [] n = <<"a", "e">> -> <<OkItem(<<"a">>), OkItem(<<"?">>)>>
    [] OTHER -> <<>>

\* Directories the process can be started in.
StartDirs == {<<>>, <<"a">>, <<"a", "a">>}

(***************************************************************************)
(* The operating system's path resolution (stat, opendir), relative to the *)
(* process working directory cwd.  Every name on disk is one character.    *)
(***************************************************************************)
RECURSIVE SplitFrom(_, _, _)
SplitFrom(p, i, cur) ==
  IF i > Len(p) THEN <<cur>>
  ELSE IF p[i] = "/" THEN <<cur>> \o SplitFrom(p, i + 1, <<>>)
  ELSE SplitFrom(p, i + 1, Append(cur, p[i]))

\* The pieces of p between its separators, empty pieces included.
Split(p) == SplitFrom(p, 1, <<>>)

\* The kernel's walk from directory n along comps[i..]: an empty piece (a
\* doubled or trailing separator) needs a directory, "." and ".." and a name
\* need a directory that may be searched.
RECURSIVE Walk(_, _, _)
Walk(n, comps, i) ==
  IF i > Len(comps) THEN Some(n)
  ELSE IF Kind(n) # "dir" THEN None
  ELSE IF comps[i] = <<>> THEN Walk(n, comps, i + 1)
  ELSE IF Locked(n) THEN None
  ELSE IF comps[i] = <<".">> THEN Walk(n, comps, i + 1)
  ELSE IF comps[i] = <<".", ".">>
    THEN Walk(IF n = Root THEN Root ELSE SubSeq(n, 1, Len(n) - 1), comps, i + 1)
  ELSE IF Len(comps[i]) = 1 /\ Append(n, comps[i][1]) \in Nodes
    THEN Walk(Append(n, comps[i][1]), comps, i + 1)
  ELSE None

\* A lookup that ends on a dangling symbolic link fails.
Followed(r) == IF r.some /\ Kind(r.v) = "dangling" THEN None ELSE r

\* The node a path string names, following symbolic links; None when the
\* lookup fails (ENOENT, ENOTDIR, EACCES).
Resolve(p) ==
  IF p = <<>> THEN None
  ELSE Followed(Walk(IF p[1] = "/" THEN Root ELSE cwd, Split(p), 1))

MetadataOf(r) == IF r.some THEN Some(FileLen(r.v)) ELSE None

\* Path::metadata: Some(len) or None.
metadata(p) == MetadataOf(Resolve(p))

IsFileNode(r) == r.some /\ Kind(r.v) = "file"

\* Path::is_file: false when the metadata lookup fails.
is_file(p) == IsFileNode(Resolve(p))

ReadDirOf(r) ==
  IF r.some /\ Kind(r.v) = "dir" /\ ~Locked(r.v)
    THEN Some(Enumeration(r.v)) ELSE None

\* fs::read_dir: Some(items) or None.
read_dir(p) == ReadDirOf(Resolve(p))

\* env::current_dir as a string: the absolute path of the node.
RECURSIVE NodePath(_)
NodePath(n) ==
  IF n = Root THEN <<"/">>
  ELSE IF Len(n) = 1 THEN <<"/", n[1]>>
  ELSE NodePath(SubSeq(n, 1, Len(n) - 1)) \o <<"/", n[Len(n)]>>

(***************************************************************************)
(* std::path::Path on Unix: Components consumed from the back.             *)
(***************************************************************************)
HasRoot(p) == Len(p) > 0 /\ p[1] = "/"

\* Components::include_cur_dir
IncludeCurDir(p) ==
  /\ Len(p) >= 1
  /\ p[1] = "."
  /\ (Len(p) = 1 \/ p[2] = "/")

\* Components::len_before_body
LenBeforeBody(p) ==
  IF HasRoot(p) THEN 1 ELSE IF IncludeCurDir(p) THEN 1 ELSE 0

\* Components::parse_single_component
ParseSingle(comp) ==
  IF comp = <<".">> THEN "None"
  ELSE IF comp = <<".", ".">> THEN "ParentDir"
  ELSE IF comp = <<>> THEN "None"
  ELSE "Normal"

\* The last separator of p at or before position i, 0 when there is none.
RECURSIVE LastSep(_, _)
LastSep(p, i) ==
  IF i = 0 THEN 0 ELSE IF p[i] = "/" THEN i ELSE LastSep(p, i - 1)

BackComponent(comp, extra) ==
  [size |-> Len(comp) + extra, comp |-> comp, kind |-> ParseSingle(comp)]

\* The component after the last separator j of the body, which begins after
\* position start.
BackCut(p, start, j) ==
  IF j <= start THEN BackComponent(SubSeq(p, start + 1, Len(p)), 0)
  ELSE BackComponent(SubSeq(p, j + 1, Len(p)), 1)

\* Components::parse_next_component_back: the size to cut and the component.
ParseNextComponentBack(p) == BackCut(p, LenBeforeBody(p), LastSep(p, Len(p)))

\* Components::next_back: the last component, the rest of the path and the
\* state of the back cursor.
RECURSIVE NextBack(_, _)
RECURSIVE NextBackBody(_, _)
NextBackBody(p, r) ==
  IF r.kind # "None"
    THEN [kind |-> r.kind, comp |-> r.comp,
          path |-> SubSeq(p, 1, Len(p) - r.size), back |-> "Body"]
    ELSE NextBack(SubSeq(p, 1, Len(p) - r.size), "Body")

NextBack(p, back) ==
  IF back = "Body" THEN
    IF Len(p) > LenBeforeBody(p)
      THEN NextBackBody(p, ParseNextComponentBack(p))
      ELSE NextBack(p, "StartDir")
  ELSE IF HasRoot(p) THEN
    [kind |-> "RootDir", comp |-> <<"/">>,
     path |-> SubSeq(p, 1, Len(p) - 1), back |-> "Prefix"]
  ELSE IF IncludeCurDir(p) THEN
    [kind |-> "CurDir", comp |-> <<".">>,
     path |-> SubSeq(p, 1, Len(p) - 1), back |-> "Prefix"]
  ELSE [kind |-> "None", comp |-> <<>>, path |-> p, back |-> "Done"]

\* Components::trim_right
RECURSIVE TrimRight(_)
RECURSIVE TrimRightStep(_, _)
TrimRightStep(p, r) ==
  IF r.kind # "None" THEN p ELSE TrimRight(SubSeq(p, 1, Len(p) - r.size))

TrimRight(p) ==
  IF Len(p) > LenBeforeBody(p)
    THEN TrimRightStep(p, ParseNextComponentBack(p))
    ELSE p

\* Components::as_path after next_back
AsPath(r) == IF r.back = "Body" THEN TrimRight(r.path) ELSE r.path

\* A parent that is never found.
ParentOf_none(r) == None

\* Path::parent, by the kind of the last component.
ParentOf(r) ==
  IF r.kind \in {"Normal", "CurDir", "ParentDir"} THEN Some(AsPath(r)) ELSE None

\* A parent made by appending "..".
parent_dotdot(p) == Some(p \o <<"/", ".", ".">>)

\* Path::parent
parent(p) == ParentOf(NextBack(p, "Body"))

FileNameOf(r) == IF r.kind = "Normal" THEN Some(r.comp) ELSE None

\* Path::file_name
file_name(p) == FileNameOf(NextBack(p, "Body"))

\* Path::join with a relative name (PathBuf::push)
join(p, name) ==
  p \o (IF Len(p) > 0 /\ p[Len(p)] # "/" THEN <<"/">> ELSE <<>>) \o name

\* Path::to_str / OsStr::to_str: None when the bytes are not valid UTF-8.
to_str(p) ==
  IF \E i \in 1..Len(p) : p[i] = "?" THEN None ELSE Some(p)

(***************************************************************************)
(* enum Content, struct ContentData                                        *)
(***************************************************************************)
File(d) == [kind |-> "File", data |-> d]
Directory(d) == [kind |-> "Directory", data |-> d]
Corrupt == [kind |-> "Corrupt"]

\* A call that returned v, and a call that panicked.
Returned(v) == [panicked |-> FALSE, v |-> v]
Panicked == [panicked |-> TRUE]

\* Option::unwrap, Option::expect
unwrap(o) == IF o.some THEN Returned(o.v) ELSE Panicked

\* file_name().unwrap().to_str().expect("file name")
NameOf(f) == IF f.panicked THEN Panicked ELSE unwrap(to_str(f.v))

\* A name that is the whole path of a child.
ContentName_path(p, is_parent) ==
  IF is_parent THEN Returned(<<".", ".">>) ELSE unwrap(to_str(p))

\* ContentData::new, the name: ".." for the parent link, else the file name
\* of the path.
ContentName(p, is_parent) ==
  IF is_parent THEN Returned(<<".", ".">>) ELSE NameOf(unwrap(file_name(p)))

\* A size in bytes.
SizeOf_bytes(m) == IF m.some THEN m.v ELSE 0

SizeOf(m) == IF m.some THEN m.v \div 1024 ELSE 0

\* ContentData::new, the size: the metadata length in units of 1024 bytes,
\* 0 when the lookup fails.
ContentSize(p) == SizeOf(metadata(p))

ContentDataOf(p, is_parent, name) ==
  IF name.panicked THEN Panicked
  ELSE Returned([is_parent |-> is_parent, path |-> p,
                 name |-> name.v, size |-> ContentSize(p)])

\* ContentData::new that drops the parent flag.
ContentData_new_unflagged(p, is_parent) ==
  ContentDataOf(p, FALSE, ContentName(p, is_parent))

\* ContentData::new
ContentData_new(p, is_parent) ==
  ContentDataOf(p, is_parent, ContentName(p, is_parent))

\* Display for Content
fmt(c) ==
  IF c.kind = "Corrupt" THEN <<"File or directory corrupted.">> ELSE c.data.name

\* Content::size
size(c) == IF c.kind = "Corrupt" THEN 0 ELSE c.data.size

\* Content::Directory(d) of a call d
DirectoryOf(d) == IF d.panicked THEN Panicked ELSE Returned(Directory(d.v))

\* Content::Directory(ContentData::new(parent_dir, true))
ParentEntry(s) ==
  IF s.panicked THEN Panicked ELSE DirectoryOf(ContentData_new(s.v, TRUE))

\* A parent link that always points at the scanned path itself.
ParentDir_self(c, q) == unwrap(to_str(c))

\* A parent link that is the empty path when the scanned path has no parent.
ParentDir_empty(c, q) ==
  IF q.some THEN unwrap(to_str(q.v)) ELSE Returned(<<>>)

\* The path of the parent link: the parent, or the path itself when it has
\* none, as a string.
ParentDir(c, q) == IF q.some THEN unwrap(to_str(q.v)) ELSE unwrap(to_str(c))

\* get_dir_content, lines 184-189: the parent link of the scanned path.
ParentLink(c) == ParentEntry(ParentDir(c, parent(c)))

\* File or Directory, by entry.path().is_file()
ChildOf(ep, d) ==
  IF d.panicked THEN Panicked
  ELSE IF is_file(ep) THEN Returned(File(d.v))
  ELSE Returned(Directory(d.v))

ChildAt(ep, s) ==
  IF s.panicked THEN Panicked ELSE ChildOf(ep, ContentData_new(s.v, FALSE))

ChildPath(ep) == ChildAt(ep, unwrap(to_str(ep)))

\* get_dir_content, lines 195-203: the entry of one enumerated child.
ChildEntry(root, name) == ChildPath(join(root, name))

\* get_dir_content, lines 193-206: the loop over the enumeration.
RECURSIVE ScanEntries(_, _, _, _)
RECURSIVE ScanNext(_, _, _, _, _)
ScanNext(root, items, i, files, e) ==
  IF e.panicked THEN Panicked
  ELSE ScanEntries(root, items, i + 1, Append(files, e.v))

\* A loop that stops at the first item that fails.
ScanEntries_stop(root, items, i, files) ==
  IF i > Len(items) THEN Returned(files)
  ELSE IF ~items[i].ok THEN Returned(Append(files, Corrupt))
  ELSE ScanNext(root, items, i, files, ChildEntry(root, items[i].name))

ScanEntries(root, items, i, files) ==
  IF i > Len(items) THEN Returned(files)
  ELSE IF ~items[i].ok THEN ScanEntries(root, items, i + 1, Append(files, Corrupt))
  ELSE ScanNext(root, items, i, files, ChildEntry(root, items[i].name))

\* A scan that lists nothing when the enumeration fails.
ScanListed_silent(c, files, rd) ==
  IF rd.some THEN ScanEntries(c, rd.v, 1, files) ELSE Returned(files)

ScanListed(c, files, rd) ==
  IF rd.some THEN ScanEntries(c, rd.v, 1, files)
  ELSE Returned(Append(files, Corrupt))

\* get_dir_content, lines 191-211: the listing after the parent link.
ScanBody(c, files) == ScanListed(c, files, read_dir(c))

ScanFrom(c, pl) == IF pl.panicked THEN Panicked ELSE ScanBody(c, <<pl.v>>)

\* get_dir_content
get_dir_content(c) == ScanFrom(c, ParentLink(c))

(***************************************************************************)
(* struct FilePicker { path, content } and its messages.  status is        *)
(* "panicked" once a handler has panicked; last is the message handled     *)
(* last, with the state it was handled in; scanned is the path passed to   *)
(* get_dir_content most recently; command is the Command the last call of  *)
(* new or update returned to the runtime.                                  *)
(***************************************************************************)
Constructed(p, r) ==
  /\ ~r.panicked
  /\ path = p
  /\ content = r.v
  /\ scanned = p

\* Command::none()
Command_none == "none"

\* FilePicker::new
Init ==
  /\ cwd \in StartDirs
  /\ Constructed(NodePath(cwd), get_dir_content(NodePath(cwd)))
  /\ status = "running"
  /\ last = [msg |-> "new"]
  /\ command = Command_none

\* An assignment that keeps the first row and replaces the rows after it.
Assign_patch(r) ==
  IF r.panicked
    THEN status' = "panicked" /\ content' = content
    ELSE status' = status /\ content' = <<content[1]>> \o Tail(r.v)

\* The result of the scan assigned to self.content; a panic unwinds before
\* the assignment.
Assign(r) ==
  IF r.panicked
    THEN status' = "panicked" /\ content' = content
    ELSE status' = status /\ content' = r.v

\* self.content = get_dir_content(p)
Rescan(p) ==
  /\ scanned' = p
  /\ Assign(get_dir_content(p))

\* A PathInput that rescans on every edit.
update_PathInput_rescan(t) ==
  /\ path' = t
  /\ Rescan(t)

\* update, Message::PathInput(path)
update_PathInput(t) ==
  /\ path' = t
  /\ UNCHANGED <<content, status, scanned>>

\* A PathChange that also rewrites the address field.
update_PathChange_trim ==
  /\ path' = TrimRight(path)
  /\ Rescan(path)

\* update, Message::PathChange
update_PathChange ==
  /\ path' = path
  /\ Rescan(path)

\* A Directory activation that scans the path it came from.
update_Directory_stale(dir) ==
  /\ path' = dir.path
  /\ Rescan(path)

\* update, Message::ContentClicked(Content::Directory(dir))
update_Directory(dir) ==
  /\ path' = dir.path
  /\ Rescan(dir.path)

\* A File activation that scans the file's path.
update_File_rescan(file) ==
  /\ path' = file.path
  /\ Rescan(file.path)

\* update, Message::ContentClicked(Content::File(file))
update_File(file) ==
  /\ path' = file.path
  /\ UNCHANGED <<content, status, scanned>>

\* A Corrupt activation that refreshes the listing.
update_Corrupt_refresh ==
  /\ path' = path
  /\ Rescan(path)

\* update, Message::ContentClicked(Content::Corrupt)
update_Corrupt == UNCHANGED <<path, content, status, scanned>>

\* update, Message::ContentClicked(content)
update_ContentClicked(c) ==
  IF c.kind = "Directory" THEN update_Directory(c.data)
  ELSE IF c.kind = "File" THEN update_File(c.data)
  ELSE update_Corrupt

\* update, Message::Sort
update_Sort == UNCHANGED <<path, content, status, scanned>>

\* An update that hands the runtime a task to perform.
update_returns_perform == command' = "perform"

\* update, line 134: the Command every message returns.
update_returns == command' = Command_none

PathInput ==
  \E t \in Texts :
    /\ status = "running"
    /\ update_PathInput(t)
    /\ last' = [msg |-> "PathInput", text |-> t]
    /\ update_returns
    /\ UNCHANGED cwd

PathChange ==
  /\ status = "running"
  /\ update_PathChange
  /\ last' = [msg |-> "PathChange"]
  /\ update_returns
  /\ UNCHANGED cwd

\* list_dir: every row's button sends a clone of that row's Content.
ContentClicked ==
  \E i \in 1..Len(content) :
    /\ status = "running"
    /\ update_ContentClicked(content[i])
    /\ last' = [msg |-> "ContentClicked", content |-> content[i], index |-> i,
                from |-> [path |-> path, content |-> content]]
    /\ update_returns
    /\ UNCHANGED cwd

Sort ==
  /\ status = "running"
  /\ update_Sort
  /\ last' = [msg |-> "Sort"]
  /\ update_returns
  /\ UNCHANGED cwd

Next == PathInput \/ PathChange \/ ContentClicked \/ Sort

Spec == Init /\ [][Next]_vars

(***************************************************************************)
(* Properties                                                              *)
(***************************************************************************)
Running == status = "running"

\* The last message ran a scan of the current path to completion.
ScanDone ==
  /\ Running
  /\ \/ last.msg \in {"new", "PathChange"}
     \/ last.msg = "ContentClicked" /\ last.content.kind = "Directory"

IsParentLink(c) == c.kind = "Directory" /\ c.data.is_parent

\* C1: in every reachable state the listing is non-empty, its first element
\* is a Directory entry with is_parent = TRUE, and no later element has
\* is_parent = TRUE.
C1_ParentLinkFirst ==
  /\ Len(content) >= 1
  /\ IsParentLink(content[1])
  /\ \A i \in 2..Len(content) : ~IsParentLink(content[i])

\* C1 witness: a submitted path that does not resolve (missing or
\* unreadable) still lists the parent link first.
C1_Witness ==
  /\ last.msg = "PathChange"
  /\ ~Resolve(path).some
  /\ IsParentLink(content[1])
  /\ Len(content) = 2

\* The activation of a child Directory entry (not the parent link).
ChildDirClick(l) ==
  /\ l.msg = "ContentClicked"
  /\ l.index > 1
  /\ l.content.kind = "Directory"

\* The state the message l was handled in showed the scan of its path.
WasListed(l) == get_dir_content(l.from.path) = Returned(l.from.content)

\* A child Directory of a listed path has just been activated, and now the
\* parent link of the resulting listing is activated.
RoundTripStep ==
  /\ Running
  /\ ChildDirClick(last)
  /\ WasListed(last)
  /\ last'.msg = "ContentClicked"
  /\ last'.index = 1
  /\ status' = "running"

\* C2 as claimed: child Directory then parent link leaves the current path
\* string equal to P and the listing equal to scan(P), for every P.
C2_RoundTripAnyPath ==
  [][RoundTripStep =>
       path' = last.from.path /\ content' = last.from.content]_vars

\* P ends in no separator (unless it is "/") and in no "." component after a
\* separator.
PlainEnd(p) ==
  \/ p = <<"/">>
  \/ p = <<>>
  \/ /\ p[Len(p)] # "/"
     /\ ~(Len(p) >= 2 /\ p[Len(p)] = "." /\ p[Len(p) - 1] = "/")

\* C2 amended: the round trip returns the path string P and the listing
\* scan(P) when P has no trailing separator and no trailing "." component.
C2_RoundTripPlain ==
  [][(RoundTripStep /\ PlainEnd(last.from.path)) =>
       path' = last.from.path /\ content' = last.from.content]_vars

\* C2 witness: the parent link was activated from the listing of a child
\* Directory of the path now current, whose listing is shown again.
C2_Witness ==
  /\ Running
  /\ last.msg = "ContentClicked"
  /\ last.index = 1
  /\ WasListed(last)
  /\ PlainEnd(path)
  /\ Returned(content) = get_dir_content(path)
  /\ \E i \in 2..Len(content) :
       /\ content[i].kind = "Directory"
       /\ content[i].data.path = last.from.path

\* C3 as claimed: no event handler reaches a panic state.
C3_NeverPanics == Running

\* C4: after a Directory entry e is activated and the handler returns, the
\* current path is e.path and the listing is the scan of the current path.
C4_DirectoryActivation ==
  (Running /\ last.msg = "ContentClicked" /\ last.content.kind = "Directory") =>
    /\ path = last.content.data.path
    /\ Returned(content) = get_dir_content(path)

\* C4 witness: a child Directory was activated from a listing of another
\* path and its children are listed.
C4_Witness ==
  /\ Running
  /\ ChildDirClick(last)
  /\ path # last.from.path
  /\ content # last.from.content
  /\ Len(content) > 2

\* C5: activating a File entry sets the current path to the file's path and
\* leaves the listing as it was, element for element.
C5_FileActivation ==
  (last.msg = "ContentClicked" /\ last.content.kind = "File") =>
    /\ Running
    /\ path = last.content.data.path
    /\ content = last.from.content

\* C5 witness: a File was activated, the path changed to it, and the listing
\* shown is not the scan of that path.
C5_Witness ==
  /\ last.msg = "ContentClicked"
  /\ last.content.kind = "File"
  /\ path # last.from.path
  /\ Returned(content) # get_dir_content(path)

\* C6: PathInput(new_text) sets the current path to new_text and leaves the
\* listing unchanged.
C6_PathInputFrame ==
  [][last'.msg = "PathInput" =>
       path' = last'.text /\ content' = content /\ status' = status]_vars

\* C6 witness: the empty text was typed and the listing is not its scan.
C6_Witness ==
  /\ last.msg = "PathInput"
  /\ path = <<>>
  /\ Returned(content) # get_dir_content(path)
  /\ Len(content) > 2

\* C7: a PathChange that returns replaces the listing with the scan of the
\* current path and leaves the current path unchanged.
C7_PathChangeFrame ==
  [][(last'.msg = "PathChange" /\ status' = "running") =>
       path' = path /\ Returned(content') = get_dir_content(path)]_vars

\* C7 witness: a path with a trailing separator that fails to scan was
\* submitted and is still in the address field.
C7_Witness ==
  /\ Running
  /\ last.msg = "PathChange"
  /\ Len(path) > 1
  /\ path[Len(path)] = "/"
  /\ ~read_dir(path).some
  /\ Returned(content) = get_dir_content(path)

\* C8: when the enumeration of the scanned path fails as a whole, the
\* listing is exactly the parent link followed by one Corrupt entry.
C8_FailedEnumeration ==
  (ScanDone /\ ~read_dir(path).some) =>
    /\ Len(content) = 2
    /\ IsParentLink(content[1])
    /\ content[2] = Corrupt

\* C8 witness: the scanned path exists but cannot be enumerated (a file, or
\* a directory without permission).
C8_Witness ==
  /\ ScanDone
  /\ Resolve(path).some
  /\ ~read_dir(path).some
  /\ Len(content) = 2

\* C9 as claimed: a child whose metadata lookup fails is listed as a Corrupt
\* entry at its position.
C9_StatFailureIsCorrupt ==
  (ScanDone /\ read_dir(path).some) =>
    \A i \in 1..Len(read_dir(path).v) :
      (/\ read_dir(path).v[i].ok
       /\ ~metadata(join(path, read_dir(path).v[i].name)).some)
        => content[i + 1] = Corrupt

\* The entry at position i + 1 is the entry of the i-th enumerated item.
ItemListed(p, items, i) ==
  IF items[i].ok
    THEN /\ content[i + 1].kind # "Corrupt"
         /\ content[i + 1].data.path = join(p, items[i].name)
    ELSE content[i + 1] = Corrupt

\* C10: a scan that returns after a successful enumeration lists one entry
\* per enumerated item, after the parent link and in enumeration order, a
\* Corrupt entry for a failed item, and the items after a failed item.
C10_OneEntryPerItem ==
  (ScanDone /\ read_dir(path).some) =>
    /\ Len(content) = 1 + Len(read_dir(path).v)
    /\ \A i \in 1..Len(read_dir(path).v) : ItemListed(path, read_dir(path).v, i)

\* C10 witness: the first item of the enumeration failed and the second is
\* listed after it.
C10_Witness ==
  /\ ScanDone
  /\ read_dir(path).some
  /\ Len(content) = 3
  /\ content[2] = Corrupt
  /\ content[3].kind = "File"

\* C11: activating a Corrupt entry and pressing the Sort header leave the
\* current path and the listing unchanged.
C11_NoOps ==
  [][(\/ last'.msg = "Sort"
      \/ last'.msg = "ContentClicked" /\ last'.content.kind = "Corrupt") =>
       /\ path' = path
       /\ content' = content
       /\ scanned' = scanned
       /\ status' = status]_vars

\* C11 witness: a Corrupt entry was activated while the address field held
\* a text that had not been submitted.
C11_Witness ==
  /\ last.msg = "ContentClicked"
  /\ last.content.kind = "Corrupt"
  /\ path # scanned
  /\ path = last.from.path
  /\ content = last.from.content

\* The piece of p after its last separator.
BaseName(p) == SubSeq(p, LastSep(p, Len(p)) + 1, Len(p))

\* C12: a File or Directory entry of the listing displays ".." if and only
\* if it is the parent link, and every other one displays the base name of
\* its own path.
C12_DisplayName ==
  \A i \in 1..Len(content) :
    content[i].kind # "Corrupt" =>
      /\ (fmt(content[i]) = <<".", ".">>) <=> content[i].data.is_parent
      /\ ~content[i].data.is_parent =>
           fmt(content[i]) = BaseName(content[i].data.path)

\* C12 witness: a listing of a directory two levels down shows the parent
\* link and a child by its base name.
C12_Witness ==
  /\ Len(content) >= 3
  /\ fmt(content[1]) = <<".", ".">>
  /\ content[3].kind = "File"
  /\ Len(content[3].data.path) > 2
  /\ fmt(content[3]) = <<"b">>

\* The size the claim gives the entry of path p: 0 when the lookup fails,
\* else the length of p alone in units of 1024 bytes.
ClaimedSize(r) == IF r.some THEN FileLen(r.v) \div 1024 ELSE 0

\* C13: an entry's size is 0 when the metadata lookup on its path fails and
\* otherwise the byte length of that single path divided by 1024 (10240
\* bytes give 10, fewer than 1024 give 0); a Corrupt entry's size is 0.
C13_Size ==
  /\ \A i \in 1..Len(content) :
       size(content[i]) =
         IF content[i].kind = "Corrupt" THEN 0
         ELSE ClaimedSize(Resolve(content[i].data.path))
  /\ \A i \in 1..Len(content) :
       content[i].kind # "Corrupt" =>
         /\ Resolve(content[i].data.path) = Some(<<"b">>) => size(content[i]) = 10
         /\ Resolve(content[i].data.path) = Some(<<"a", "b">>) => size(content[i]) = 0
         /\ Resolve(content[i].data.path) = Some(<<"a">>) => size(content[i]) = 4

\* C13 witness: a listing shows a directory that holds files with size 4, a
\* file of 1023 bytes with size 0, and a child whose lookup fails with
\* size 0.
C13_Witness ==
  /\ Len(content) >= 4
  /\ content[2].kind = "Directory"
  /\ Resolve(content[2].data.path) = Some(<<"a", "a">>)
  /\ size(content[2]) = 4
  /\ content[3].kind = "File"
  /\ Resolve(content[3].data.path) = Some(<<"a", "b">>)
  /\ size(content[3]) = 0
  /\ content[4].kind = "Directory"
  /\ ~Resolve(content[4].data.path).some
  /\ size(content[4]) = 0

\* The listing shown is the scan of the current path, and its parent link is
\* activated.
ParentStep ==
  /\ Running
  /\ Returned(content) = get_dir_content(path)
  /\ last'.msg = "ContentClicked"
  /\ last'.index = 1

\* The step leaves the state as it is, with the parent link pointing at the
\* current path.
StaysPut ==
  /\ content[1].data.path = path
  /\ status' = "running"
  /\ path' = path
  /\ content' = content

RootPath(p) ==
  /\ HasRoot(p)
  /\ \A k \in 1..Len(Split(p)) : Split(p)[k] \in {<<>>, <<".">>}

C15_ListingIsLastScan ==
  /\ Running => Returned(content) = get_dir_content(scanned)
  /\ ScanDone => scanned = path
  /\ last.msg = "new" => path = NodePath(cwd)

\* C15 witness: a File was activated, so the current path is no longer the
\* path scanned last, and the listing is still the scan of the latter.
C15_Witness ==
  /\ Running
  /\ last.msg = "ContentClicked"
  /\ last.content.kind = "File"
  /\ path # scanned
  /\ Returned(content) = get_dir_content(scanned)
  /\ Returned(content) # get_dir_content(path)

\* The directory that holds node n.
Holder(n) == SubSeq(n, 1, Len(n) - 1)

\* A File entry listed under the directory scanned last has just been
\* activated, and now its path is submitted.
FileSubmitStep ==
  /\ Running
  /\ last.msg = "ContentClicked"
  /\ last.content.kind = "File"
  /\ last'.msg = "PathChange"

\* The listing is the parent link, whose path names the directory the file
\* was listed under (and is the very string scanned for it when that string
\* has a plain end), followed by one Corrupt entry.
FileSubmitted ==
  /\ status' = "running"
  /\ Len(content') = 2
  /\ IsParentLink(content'[1])
  /\ content'[2] = Corrupt
  /\ Resolve(scanned).some
  /\ Resolve(content'[1].data.path) = Resolve(scanned)
  /\ Resolve(content'[1].data.path).v = Holder(Resolve(path).v)
  /\ PlainEnd(scanned) => content'[1].data.path = scanned

\* The path of a file has just been submitted, and now the parent link of
\* the resulting listing is activated.
FileParentStep ==
  /\ Running
  /\ last.msg = "PathChange"
  /\ is_file(path)
  /\ last'.msg = "ContentClicked"
  /\ last'.index = 1

\* The current path names the directory that holds the file and the listing
\* is its scan.
BackInHolder ==
  /\ status' = "running"
  /\ path' = content[1].data.path
  /\ Resolve(path').some
  /\ Resolve(path').v = Holder(Resolve(path).v)
  /\ Returned(content') = get_dir_content(path')
  /\ \E i \in 2..Len(content') :
       content'[i].kind = "File" /\ Resolve(content'[i].data.path) = Resolve(path)

\* C16: after a File entry f listed under directory D is activated and the
\* path is submitted, the listing is the parent link, whose path is D, and
\* one Corrupt entry; activating that parent link sets the current path to
\* D and the listing to the scan of D.
C16_FileThenSubmit ==
  /\ [][FileSubmitStep => FileSubmitted]_vars
  /\ [][FileParentStep => BackInHolder]_vars

\* C16 witness: the parent link of the two-entry listing of a submitted
\* file path was activated, and the file is listed again.
C16_Witness ==
  /\ Running
  /\ last.msg = "ContentClicked"
  /\ last.index = 1
  /\ is_file(last.from.path)
  /\ Len(last.from.content) = 2
  /\ last.from.content[2] = Corrupt
  /\ Returned(content) = get_dir_content(path)
  /\ \E i \in 2..Len(content) :
       content[i].kind = "File" /\ content[i].data.path = last.from.path

\* The path of the parent link of the scan of p.
LinkPath(p) == ParentDir(p, parent(p)).v

\* The current path after k activations of the parent link, each from the
\* listing of the path before it.
RECURSIVE Climb(_, _)
Climb(p, k) == IF k = 0 THEN p ELSE Climb(LinkPath(p), k - 1)

C17_WitnessOnTheWay ==
  /\ Running
  /\ last.msg = "ContentClicked"
  /\ last.index = 1
  /\ Returned(last.from.content) = get_dir_content(last.from.path)
  /\ Len(path) < Len(last.from.path)
  /\ content[1].data.path # path

\* The messages of the application.
Messages == {"PathInput", "PathChange", "ContentClicked", "Sort"}

\* C18: update returns Command::none for every message; every step is the
\* handling of one message, and a step that changes the path or the listing
\* is the handling of a PathInput, a PathChange or a ContentClicked; after a
\* Directory activation that returned, the path is the entry's path and the
\* listing is already the scan of it.
C18_AtomicMessages ==
  /\ [](command = Command_none)
  /\ []((Running /\ last.msg = "ContentClicked" /\ last.content.kind = "Directory") =>
          /\ path = last.content.data.path
          /\ scanned = path
          /\ Returned(content) = get_dir_content(path))
  /\ [][/\ last'.msg \in Messages
        /\ (path' # path \/ content' # content) => last'.msg # "Sort"
        /\ path' # path => last'.msg \in {"PathInput", "ContentClicked"}
        /\ content' # content => last'.msg \in {"PathChange", "ContentClicked"}
       ]_vars

\* C18 witness: a Directory activation returned with both the path and the
\* listing replaced, and no command for the runtime.
C18_Witness ==
  /\ Running
  /\ last.msg = "ContentClicked"
  /\ last.content.kind = "Directory"
  /\ path # last.from.path
  /\ content # last.from.content
  /\ command = Command_none

====
